---- MODULE Spec2Model ----
(***************************************************************************)
(* Model of weather-azmet (src/main.go): DownloadHourlyData, generateUrl,  *)
(* ReadHourlyData, parseHourlyWeatherData and WeatherDataDate.             *)
(*                                                                         *)
(* Text is a sequence of one-character strings, so that strconv.Itoa,      *)
(* strconv.Atoi, strconv.ParseFloat and fmt.Sprintf are computed and not   *)
(* assumed.  A float32 is written [num, scale] = num / 10^scale with no    *)
(* trailing zero in the fraction: every text of the model has at most      *)
(* six significant digits, for which distinct decimals are distinct        *)
(* float32 values.  A time.Time is [abs, loc]: whole hours since           *)
(* 0001-01-01 00:00 UTC and the name of its location.                      *)
(***************************************************************************)
EXTENDS Integers, Sequences, FiniteSets, TLC

\* ------------------------------------------------------------- bounds

\* rows a stream delivers before it must end
MaxRows == 4
\* years tried on each side of the accepted range of DownloadHourlyData
YearMargin == 2
\* calendar years handed to WeatherDataDate directly: leap, non-leap, 4-, 100- and
\* 400-year rule.  All are years in which America/Phoenix keeps one offset (see
\* PhoenixOffsetHours).
DateYears == {2000, 2003, 2023, 2024, 2099, 2100}
DateDays == 1..366
DateHours == 0..23

\* ------------------------------------------------------------- errors

Nil == [isNil |-> TRUE, msg |-> <<>>]

Errorf(msg) == [isNil |-> FALSE, msg |-> msg]

\* ------------------------------------------------------------- strconv

Digits == {"0", "1", "2", "3", "4", "5", "6", "7", "8", "9"}

DigitVal ==
  ("0" :> 0) @@ ("1" :> 1) @@ ("2" :> 2) @@ ("3" :> 3) @@ ("4" :> 4) @@
  ("5" :> 5) @@ ("6" :> 6) @@ ("7" :> 7) @@ ("8" :> 8) @@ ("9" :> 9)

DigitChar == <<"0", "1", "2", "3", "4", "5", "6", "7", "8", "9">>

RECURSIVE DigitsVal(_)
\* the number a string of decimal digits writes
DigitsVal(s) ==
  IF s = <<>> THEN 0
  ELSE 10 * DigitsVal(SubSeq(s, 1, Len(s) - 1)) + DigitVal[s[Len(s)]]

AllDigits(s) == \A i \in 1..Len(s) : s[i] \in Digits

RECURSIVE NatText(_)
NatText(n) ==
  IF n < 10 THEN <<DigitChar[n + 1]>>
  ELSE NatText(n \div 10) \o <<DigitChar[(n % 10) + 1]>>

\* strconv.Itoa, also what %d of fmt.Sprintf writes
Itoa(n) == IF n < 0 THEN <<"-">> \o NatText(-n) ELSE NatText(n)

\* strconv.Atoi: an optional sign and one or more decimal digits
Atoi(s) ==
  LET signed == Len(s) > 0 /\ s[1] \in {"+", "-"}
      body == IF signed THEN Tail(s) ELSE s
  IN IF body = <<>> \/ ~AllDigits(body)
     THEN [ok |-> FALSE, val |-> 0]
     ELSE [ok |-> TRUE,
           val |-> IF signed /\ s[1] = "-" THEN -DigitsVal(body) ELSE DigitsVal(body)]

RECURSIVE Normalize(_, _)
\* num / 10^scale without trailing zeros in the fraction
Normalize(num, scale) ==
  IF scale > 0 /\ num % 10 = 0 THEN Normalize(num \div 10, scale - 1)
  ELSE [num |-> num, scale |-> scale]

ZeroFloat == [num |-> 0, scale |-> 0]

\* strconv.ParseFloat(s, 32) followed by float32(val), on texts over digits, signs,
\* the point and letters that are no part of a number: an optional sign, digits
\* with at most one point, and at least one digit
ParseFloat32(s) ==
  LET signed == Len(s) > 0 /\ s[1] \in {"+", "-"}
      body == IF signed THEN Tail(s) ELSE s
      points == {i \in 1..Len(body) : body[i] = "."}
      p == IF points = {} THEN Len(body) + 1 ELSE CHOOSE i \in points : TRUE
      whole == SubSeq(body, 1, p - 1)
      frac == SubSeq(body, p + 1, Len(body))
      mag == DigitsVal(whole \o frac)
  IN IF Cardinality(points) > 1 \/ ~AllDigits(whole) \/ ~AllDigits(frac)
        \/ Len(whole) + Len(frac) = 0
     THEN [ok |-> FALSE, val |-> ZeroFloat]
     ELSE [ok |-> TRUE,
           val |-> Normalize(IF signed /\ s[1] = "-" THEN -mag ELSE mag, Len(frac))]

\* ------------------------------------------------------------- data model

\* time.Time{}: the zero instant, in UTC
ZeroTime == [abs |-> 0, loc |-> "UTC"]

\* the mutant of FieldNames: two neighbouring measurements declared in the other order
FieldNames_Exchanged ==
  <<"Year", "Day", "Hour", "AirTemperature", "RelativeHumidity",
    "VaporPressureDeficit", "SolarRadiation", "Precipitation",
    "SoilTempFourInches", "SoilTempTwentyInches", "WindSpeedAverage",
    "WindDirectionVector", "WindMagnitudeVector", "WindDirectionStdDev",
    "WindSpeedMax", "Evapotranspiration", "VaporPressureActual",
    "DewpointHourAverage", "Time">>

\* the fields of HourlyWeatherData in declaration order; reflect's Field(i) of the
\* source is FieldNames[i + 1]
FieldNames ==
  <<"Year", "Day", "Hour", "AirTemperature", "RelativeHumidity",
    "VaporPressureDeficit", "SolarRadiation", "Precipitation",
    "SoilTempFourInches", "SoilTempTwentyInches", "WindSpeedAverage",
    "WindMagnitudeVector", "WindDirectionVector", "WindDirectionStdDev",
    "WindSpeedMax", "Evapotranspiration", "VaporPressureActual",
    "DewpointHourAverage", "Time">>

\* field.Type().Kind() of the i-th declared field
FieldKind(i) == IF i <= 3 THEN "int" ELSE IF i <= 18 THEN "float32" ELSE "struct"

\* HourlyWeatherData{}
ZeroData ==
  [n \in {FieldNames[i] : i \in 1..19} |->
     IF n \in {"Year", "Day", "Hour"} THEN 0
     ELSE IF n = "Time" THEN ZeroTime ELSE ZeroFloat]

\* the station codes of the WeatherStation constants
Stations ==
  {7, 9, 33, 26, 5, 27, 23, 6, 20, 28, 40, 19, 8, 35, 32, 12, 15, 22, 24, 4, 38,
   41, 37, 1, 39, 14, 36, 2}

\* ------------------------------------------------------------- generateUrl

UrlPrefix == "https://cals.arizona.edu/azmet/data/"

UrlSuffix == "rh.txt"

\* yearStr[len(yearStr)-2:], which panics on a text shorter than two
LastTwo(yearStr) ==
  IF Len(yearStr) < 2 THEN <<"panic: slice bounds out of range">>
  ELSE SubSeq(yearStr, Len(yearStr) - 1, Len(yearStr))

\* the mutant of generateUrl: the two arguments of Sprintf exchanged
generateUrl_YearFirst(station, year) ==
  <<UrlPrefix>> \o LastTwo(Itoa(year)) \o Itoa(station) \o <<UrlSuffix>>

\* fmt.Sprintf("https://cals.arizona.edu/azmet/data/%d%srh.txt", station, yearStr[len-2:])
generateUrl(station, year) ==
  <<UrlPrefix>> \o Itoa(station) \o LastTwo(Itoa(year)) \o <<UrlSuffix>>

MinYear == 2003

MaxYear == 2099

\* the mutant of InvalidYear: the lower limit forgotten
InvalidYear_NoLowerLimit(year) == year > MaxYear

\* year < 2003 || year > 2099
InvalidYear(year) == year < MinYear \/ year > MaxYear

\* ------------------------------------------------------------- time

IsLeap(y) == y % 4 = 0 /\ (y % 100 # 0 \/ y % 400 = 0)

\* days from 0001-01-01 to January 1 of year y
DaysBeforeYear(y) ==
  365 * (y - 1) + ((y - 1) \div 4) - ((y - 1) \div 100) + ((y - 1) \div 400)

\* days of a non-leap year before the first of each month
DaysBeforeMonth == <<0, 31, 59, 90, 120, 151, 181, 212, 243, 273, 304, 334>>

\* the offset from UTC of America/Phoenix: Mountain Standard Time, with no
\* daylight saving in any year from 1968 on
PhoenixOffsetHours == -7

\* time.Date(year, month, day, hour, 0, 0, 0, tz) for tz = America/Phoenix
GoDate(year, month, day, hour) ==
  LET days == DaysBeforeYear(year) + DaysBeforeMonth[month]
              + (IF IsLeap(year) /\ month >= 3 THEN 1 ELSE 0) + (day - 1)
  IN [abs |-> days * 24 + hour - PhoenixOffsetHours, loc |-> "America/Phoenix"]

\* t.Add(time.Hour * hours)
TimeAdd(t, hours) == [t EXCEPT !.abs = t.abs + hours]

\* the mutant of WeatherDataDate: the day of the year taken as an offset from 0
WeatherDataDate_DayFromZero(data, tzOk) ==
  IF ~tzOk THEN [val |-> ZeroTime, err |-> Errorf(<<"unable to resolve timezone">>)]
  ELSE [val |-> TimeAdd(GoDate(data.Year, 1, 1, data.Hour), 24 * data.Day), err |-> Nil]

\* WeatherDataDate; tzOk is whether time.LoadLocation("America/Phoenix") succeeds
WeatherDataDate(data, tzOk) ==
  IF ~tzOk THEN [val |-> ZeroTime, err |-> Errorf(<<"unable to resolve timezone">>)]
  ELSE LET firstOfYear == GoDate(data.Year, 1, 1, data.Hour)
       IN [val |-> TimeAdd(firstOfYear, 24 * (data.Day - 1)), err |-> Nil]

\* ------------------------------------------------------------- parseHourlyWeatherData

NumFields == 18

\* the mutant of WrongLength: rows longer than 18 fields let through
WrongLength_AtLeast(record) == Len(record) < NumFields

\* len(record) != 18
WrongLength(record) == Len(record) # NumFields

RECURSIVE ParseFields(_, _, _, _)
\* the loop "for i := 0; i < 18; i++" from field i on (i counts from 1 here); coerced
\* lists the fields handed to strconv so far.  Every field of the struct is
\* exported, so field.CanSet() holds for each.
ParseFields(record, i, data, coerced) ==
  IF i > NumFields THEN [data |-> data, err |-> Nil, coerced |-> coerced]
  ELSE
    CASE FieldKind(i) = "int" ->
           LET r == Atoi(record[i])
           IN IF ~r.ok
              THEN [data |-> ZeroData,
                    err |-> Errorf(<<"unable to parse int type for value: ">> \o record[i]),
                    coerced |-> Append(coerced, i)]
              ELSE ParseFields(record, i + 1, [data EXCEPT ![FieldNames[i]] = r.val],
                               Append(coerced, i))
      [] FieldKind(i) = "float32" ->
           LET r == ParseFloat32(record[i])
           IN IF ~r.ok
              THEN [data |-> ZeroData,
                    err |-> Errorf(<<"unable to parse float32 type for value: ">> \o record[i]),
                    coerced |-> Append(coerced, i)]
              ELSE ParseFields(record, i + 1, [data EXCEPT ![FieldNames[i]] = r.val],
                               Append(coerced, i))
      [] OTHER ->
           [data |-> ZeroData,
            err |-> Errorf(<<"unable to parse type for field: ", "time.Time">>),
            coerced |-> coerced]

ShapeMessage == "invalid field list length for hourly weather data, expecting 18 fields received "

parseHourlyWeatherData(record) ==
  IF WrongLength(record)
  THEN [data |-> ZeroData,
        err |-> Errorf(<<ShapeMessage>> \o Itoa(Len(record))),
        coerced |-> <<>>]
  ELSE ParseFields(record, 1, ZeroData, <<>>)

\* ------------------------------------------------------------- inputs

\* a well-formed row whose every field differs from the others
GoodRowA ==
  [i \in 1..18 |->
     CASE i = 1 -> <<"2", "0", "2", "3">>
       [] i = 2 -> <<"3", "6", "5">>
       [] i = 3 -> <<"2", "3">>
       [] i = 4 -> <<"-", "1", ".", "5">>
       [] OTHER -> Itoa(i) \o <<".", "2">>]

\* a well-formed row of a leap year, with whole, signed and zero-padded decimals
GoodRowB ==
  [i \in 1..18 |->
     CASE i = 1 -> <<"2", "0", "2", "4">>
       [] i = 2 -> <<"3", "6", "6">>
       [] i = 3 -> <<"0">>
       [] i = 4 -> <<"+", "7">>
       [] i = 5 -> <<"9", "9", "9">>
       [] i = 6 -> <<".", "5">>
       [] i = 7 -> <<"0", ".", "5", "0">>
       [] OTHER -> Itoa(i) \o <<".", "7", "5">>]

Row17 == SubSeq(GoodRowA, 1, 17)

Row19 == GoodRowA \o <<<<"1">>>>

Subst(row, p, t) == [row EXCEPT ![p] = t]

\* texts put in place of a field: no number, empty, a decimal (no integer), two
\* points, a bare sign, a bare point, and three texts both parsers accept or that
\* only the decimal parser accepts
FieldTexts ==
  {<<"x">>, <<>>, <<"1", ".", "5">>, <<"1", ".", "2", ".", "3">>, <<"-">>, <<".">>,
   <<"+", "4">>, <<"8", ".">>, <<"1", "x">>}

\* the rows handed to parseHourlyWeatherData directly
ParseRows ==
  {GoodRowA, GoodRowB, Row17, Row19, <<>>, <<<<"x">>>>,
   Subst(Row17, 1, <<"x">>), Subst(Row19, 4, <<"x">>)}
  \cup {Subst(GoodRowA, p, t) : p \in 1..18, t \in FieldTexts}
  \cup {Subst(Subst(GoodRowA, p, <<"x">>), q, <<"y">>) : p \in {2, 5}, q \in {3, 9}}

\* the rows a stream holds
StreamRows ==
  {GoodRowA, GoodRowB, Row17, Row19,
   Subst(GoodRowA, 2, <<"x">>), Subst(GoodRowB, 3, <<"1", ".", "5">>),
   Subst(GoodRowA, 4, <<"x">>), Subst(GoodRowB, 18, <<>>)}

\* what one r.Read() of encoding/csv meets next in the stream: a line of fields, a
\* blank line, a line with a bare quote, a failure of the underlying reader, or
\* the end of the stream
StreamItems ==
  {[kind |-> "fields", fields |-> r] : r \in StreamRows}
  \cup {[kind |-> "blank", fields |-> <<>>], [kind |-> "quote", fields |-> <<>>],
        [kind |-> "ioerror", fields |-> <<>>]}

\* the outcomes of client.Get: no response (err # nil), or a response with a status
GetFailures == {"transport", "timeout"}

Statuses == {200, 404, 500}

DownloadYears == (MinYear - YearMargin)..(MaxYear + YearMargin)

\* ------------------------------------------------------------- encoding/csv

EndOfStream == [kind |-> "eof", fields |-> <<>>]

\* one item of the stream as csv.Reader.Read sees it, with FieldsPerRecord = fpr
\* (0 until the first record fixes it): what Read returns, or "skip" for a blank
\* line, after which Read goes on to the next line
CsvRead(item, fpr) ==
  CASE item.kind = "eof" ->
         [out |-> "eof", record |-> <<>>, err |-> Errorf(<<"EOF">>), fpr |-> fpr]
    [] item.kind = "blank" ->
         [out |-> "skip", record |-> <<>>, err |-> Nil, fpr |-> fpr]
    [] item.kind = "quote" ->
         [out |-> "error", record |-> <<>>,
          err |-> Errorf(<<"parse error: bare \" in non-quoted-field">>), fpr |-> fpr]
    [] item.kind = "ioerror" ->
         [out |-> "error", record |-> <<>>,
          err |-> Errorf(<<"unexpected EOF">>), fpr |-> fpr]
    [] OTHER ->
         IF fpr > 0 /\ Len(item.fields) # fpr
         THEN [out |-> "error", record |-> item.fields,
               err |-> Errorf(<<"wrong number of fields">>), fpr |-> fpr]
         ELSE [out |-> "record", record |-> item.fields, err |-> Nil,
               fpr |-> IF fpr = 0 THEN Len(item.fields) ELSE fpr]

\* ------------------------------------------------------------- ReadHourlyData, pieces

\* the mutant of ErrorReturnData: the rows read so far returned with the error
ErrorReturnData_Partial(data) == data

\* []HourlyWeatherData{}, the slice every error return of ReadHourlyData carries
ErrorReturnData(data) == <<>>

\* the mutant of AppendRecord: a record equal to the last one is not added again
AppendRecord_SkipRepeat(data, r) ==
  IF data # <<>> /\ data[Len(data)] = r THEN data ELSE Append(data, r)

\* data = append(data, rec)
AppendRecord(data, r) == Append(data, r)

\* the mutant of DeferredCloses: the stream closed on the success path only
DeferredCloses_SuccessOnly(e) == IF e.isNil THEN 1 ELSE 0

\* defer reader.Close(): the calls of Close run when ReadHourlyData returns with e
DeferredCloses(e) == 1

\* ------------------------------------------------------------- state

VARIABLES
  pc,              \* where the call stands: idle, download, url, get, read, parse, date, returned
  entry,           \* the function called from outside
  tzAvailable,     \* whether the host can load America/Phoenix
  station, year,   \* the arguments of DownloadHourlyData
  url,             \* the address generateUrl built
  urlCalls,        \* calls of generateUrl
  getCalls,        \* calls of client.Get
  response,        \* how client.Get ended: [failure, status]
  readCalls,       \* calls of ReadHourlyData
  consumed,        \* the items of the stream read so far
  fieldsPerRecord, \* csv.Reader.FieldsPerRecord
  record,          \* the row last returned by r.Read(), or the argument of a direct parse
  rec,             \* the struct parseHourlyWeatherData returned
  coerced,         \* the fields the last parse handed to strconv
  date,            \* the time WeatherDataDate returned
  data,            \* the slice ReadHourlyData builds
  result,          \* the slice returned to the caller
  err,             \* the error returned to the caller
  closeCount       \* calls of Close on the stream

vars ==
  <<pc, entry, tzAvailable, station, year, url, urlCalls, getCalls, response,
    readCalls, consumed, fieldsPerRecord, record, rec, coerced, date, data, result,
    err, closeCount>>

NoResponse == [failure |-> "none", status |-> 0]

Init ==
  /\ pc = "idle"
  /\ entry = "none"
  /\ tzAvailable \in BOOLEAN
  /\ station = 0
  /\ year = 0
  /\ url = <<>>
  /\ urlCalls = 0
  /\ getCalls = 0
  /\ response = NoResponse
  /\ readCalls = 0
  /\ consumed = <<>>
  /\ fieldsPerRecord = 0
  /\ record = <<>>
  /\ rec = ZeroData
  /\ coerced = <<>>
  /\ date = ZeroTime
  /\ data = <<>>
  /\ result = <<>>
  /\ err = Nil
  /\ closeCount = 0

downloadVars == <<station, year, url, urlCalls, getCalls, response>>

readVars == <<readCalls, consumed, fieldsPerRecord, record, rec, coerced, date, data, closeCount>>

\* ------------------------------------------------------------- calls from outside

CallDownloadHourlyData ==
  /\ pc = "idle"
  /\ \E s \in Stations, y \in DownloadYears :
       /\ station' = s
       /\ year' = y
  /\ entry' = "DownloadHourlyData"
  /\ pc' = "download"
  /\ UNCHANGED <<tzAvailable, url, urlCalls, getCalls, response, result, err>>
  /\ UNCHANGED readVars

CallReadHourlyData ==
  /\ pc = "idle"
  /\ entry' = "ReadHourlyData"
  /\ readCalls' = readCalls + 1
  /\ pc' = "read"
  /\ UNCHANGED <<tzAvailable, consumed, fieldsPerRecord, record, rec, coerced, date,
                 data, result, err, closeCount>>
  /\ UNCHANGED downloadVars

CallParseHourlyWeatherData ==
  /\ pc = "idle"
  /\ \E r \in ParseRows : record' = r
  /\ entry' = "parseHourlyWeatherData"
  /\ pc' = "parse"
  /\ UNCHANGED <<tzAvailable, readCalls, consumed, fieldsPerRecord, rec, coerced, date,
                 data, result, err, closeCount>>
  /\ UNCHANGED downloadVars

CallWeatherDataDate ==
  /\ pc = "idle"
  /\ \E y \in DateYears, d \in DateDays, h \in DateHours :
       rec' = [ZeroData EXCEPT !.Year = y, !.Day = d, !.Hour = h]
  /\ entry' = "WeatherDataDate"
  /\ pc' = "date"
  /\ UNCHANGED <<tzAvailable, readCalls, consumed, fieldsPerRecord, record, coerced,
                 date, data, result, err, closeCount>>
  /\ UNCHANGED downloadVars

\* ------------------------------------------------------------- DownloadHourlyData

\* lines 95-97: the year check and its error return
CheckYear ==
  /\ pc = "download"
  /\ IF InvalidYear(year)
     THEN /\ result' = <<>>
          /\ err' = Errorf(<<"invalid year to fetch Phoenix weather data: ">> \o Itoa(year))
          /\ pc' = "returned"
     ELSE /\ pc' = "url"
          /\ UNCHANGED <<result, err>>
  /\ UNCHANGED <<entry, tzAvailable>>
  /\ UNCHANGED downloadVars
  /\ UNCHANGED readVars

\* line 99
GenerateUrl ==
  /\ pc = "url"
  /\ url' = generateUrl(station, year)
  /\ urlCalls' = urlCalls + 1
  /\ pc' = "get"
  /\ UNCHANGED <<entry, tzAvailable, station, year, getCalls, response, result, err>>
  /\ UNCHANGED readVars

\* lines 101-108 when client.Get returns an error: the transport failed or the
\* ten seconds ran out
ClientGetFails ==
  /\ pc = "get"
  /\ \E f \in GetFailures :
       /\ response' = [failure |-> f, status |-> 0]
       /\ err' = Errorf(<<"Get: ", f>>)
  /\ getCalls' = getCalls + 1
  /\ result' = <<>>
  /\ pc' = "returned"
  /\ UNCHANGED <<entry, tzAvailable, station, year, url, urlCalls>>
  /\ UNCHANGED readVars

\* lines 101-110 when client.Get returns a response, whatever its status: err is
\* nil and the body goes to ReadHourlyData.  station, year and url are not read
\* again and are reset.
ClientGetResponds ==
  /\ pc = "get"
  /\ \E st \in Statuses : response' = [failure |-> "none", status |-> st]
  /\ getCalls' = getCalls + 1
  /\ readCalls' = readCalls + 1
  /\ station' = 0
  /\ year' = 0
  /\ url' = <<>>
  /\ pc' = "read"
  /\ UNCHANGED <<entry, tzAvailable, urlCalls, consumed, fieldsPerRecord, record, rec,
                 coerced, date, data, result, err, closeCount>>

\* ------------------------------------------------------------- ReadHourlyData

\* a return of ReadHourlyData with slice d and error e; the deferred Close runs
ReadReturns(d, e) ==
  /\ result' = d
  /\ err' = e
  /\ closeCount' = closeCount + DeferredCloses(e)
  /\ pc' = "returned"

\* lines 119-125: r.Read() and the two tests of its error
ReadRecord ==
  /\ pc = "read"
  /\ \E item \in (IF Len(consumed) < MaxRows THEN StreamItems ELSE {}) \cup {EndOfStream} :
       LET r == CsvRead(item, fieldsPerRecord)
       IN /\ consumed' = IF item.kind = "eof" THEN consumed ELSE Append(consumed, item)
          /\ fieldsPerRecord' = r.fpr
          /\ CASE r.out = "eof" ->
                    /\ ReadReturns(data, Nil)
                    /\ UNCHANGED record
               [] r.out = "error" ->
                    /\ ReadReturns(ErrorReturnData(data), r.err)
                    /\ UNCHANGED record
               [] r.out = "skip" ->
                    UNCHANGED <<record, result, err, closeCount, pc>>
               [] OTHER ->
                    /\ record' = r.record
                    /\ pc' = "parse"
                    /\ UNCHANGED <<result, err, closeCount>>
  /\ UNCHANGED <<entry, tzAvailable, readCalls, rec, coerced, date, data>>
  /\ UNCHANGED downloadVars

\* lines 126-130, or the whole of a direct call of parseHourlyWeatherData
ParseRecord ==
  /\ pc = "parse"
  /\ LET r == parseHourlyWeatherData(record)
     IN /\ rec' = r.data
        /\ coerced' = r.coerced
        /\ IF entry = "parseHourlyWeatherData"
           THEN /\ err' = r.err
                /\ pc' = "returned"
                /\ UNCHANGED <<result, closeCount>>
           ELSE IF ~r.err.isNil
                THEN ReadReturns(ErrorReturnData(data), r.err)
                ELSE /\ pc' = "date"
                     /\ UNCHANGED <<result, err, closeCount>>
  /\ UNCHANGED <<entry, tzAvailable, readCalls, consumed, fieldsPerRecord, record, date, data>>
  /\ UNCHANGED downloadVars

\* lines 131-136, or the whole of a direct call of WeatherDataDate
ResolveDate ==
  /\ pc = "date"
  /\ LET r == WeatherDataDate(rec, tzAvailable)
     IN /\ date' = r.val
        /\ IF entry = "WeatherDataDate"
           THEN /\ err' = r.err
                /\ pc' = "returned"
                /\ UNCHANGED <<rec, data, result, closeCount>>
           ELSE IF ~r.err.isNil
                THEN /\ ReadReturns(ErrorReturnData(data), r.err)
                     /\ UNCHANGED <<rec, data>>
                ELSE /\ rec' = [rec EXCEPT !.Time = r.val]
                     /\ data' = AppendRecord(data, rec')
                     /\ pc' = "read"
                     /\ UNCHANGED <<result, err, closeCount>>
  /\ UNCHANGED <<entry, tzAvailable, readCalls, consumed, fieldsPerRecord, record, coerced>>
  /\ UNCHANGED downloadVars

Next ==
  \/ CallDownloadHourlyData
  \/ CallReadHourlyData
  \/ CallParseHourlyWeatherData
  \/ CallWeatherDataDate
  \/ CheckYear
  \/ GenerateUrl
  \/ ClientGetFails
  \/ ClientGetResponds
  \/ ReadRecord
  \/ ParseRecord
  \/ ResolveDate

Spec == Init /\ [][Next]_vars

\* ------------------------------------------------------------- properties

\* s ends in suf
EndsWith(s, suf) ==
  Len(s) >= Len(suf) /\ SubSeq(s, Len(s) - Len(suf) + 1, Len(s)) = suf

\* n in 0..99 written with two digits
TwoDigits(n) == <<DigitChar[(n \div 10) + 1], DigitChar[(n % 10) + 1]>>

\* a station code below 100 written in decimal, without padding
DecimalCode(n) == IF n < 10 THEN <<DigitChar[n + 1]>> ELSE TwoDigits(n)

\* the arguments of DownloadHourlyData are those of the call in progress
InDownload == entry = "DownloadHourlyData" /\ readCalls = 0

\* C1 as stated: for a year in 2003..2099 and a registered station the address built
\* by generateUrl ends in the two-digit year followed by the station code and rh.txt
C1_YearThenStation ==
  (InDownload /\ urlCalls = 1 /\ year \in 2003..2099 /\ station \in Stations)
    => EndsWith(url, TwoDigits(year % 100) \o DecimalCode(station) \o <<"rh.txt">>)

\* C1 amended: for a year in 2003..2099 and a registered station the address built by
\* generateUrl ends in the decimal station code followed by the two-digit year and
\* rh.txt
C1_StationThenYear ==
  (InDownload /\ urlCalls = 1 /\ year \in 2003..2099 /\ station \in Stations)
    => EndsWith(url, DecimalCode(station) \o TwoDigits(year % 100) \o <<"rh.txt">>)

C1_Witness ==
  /\ InDownload
  /\ pc = "get"
  /\ station = 12
  /\ year = 2024
  /\ url = <<UrlPrefix, "1", "2", "2", "4", "rh.txt">>

\* C2: a call of DownloadHourlyData with a year below 2003 or above 2099 returns an
\* error, and neither generateUrl nor client.Get is called at any point of it
C2_InvalidYearNoAccess ==
  (InDownload /\ (year < 2003 \/ year > 2099))
    => /\ urlCalls = 0
       /\ getCalls = 0
       /\ pc \in {"download", "returned"}
       /\ pc = "returned" => ~err.isNil

C2_Witness ==
  /\ InDownload
  /\ pc = "returned"
  /\ year = 2002
  /\ ~err.isNil
  /\ urlCalls = 0
  /\ getCalls = 0

\* C3: when ReadHourlyData returns an error, whatever row failed and however many
\* rows were read before it, the slice it returns holds no record
C3_AllOrNothing ==
  (pc = "returned" /\ readCalls > 0 /\ ~err.isNil) => result = <<>>

C3_Witness ==
  /\ pc = "returned"
  /\ readCalls > 0
  /\ ~err.isNil
  /\ Len(data) = 2
  /\ Len(consumed) = 3
  /\ consumed[3].kind = "fields"
  /\ Len(consumed[3].fields) = 17
  /\ result = <<>>

\* an 18-field row whose first three fields are integers and the rest decimals
WellFormedRow(fields) ==
  /\ Len(fields) = 18
  /\ \A k \in 1..3 : Atoi(fields[k]).ok
  /\ \A k \in 4..18 : ParseFloat32(fields[k]).ok

\* the record fields a row's 18 fields stand for, in order: year, day of the year,
\* hour, then the fifteen measurements
RowMeaning ==
  <<"Year", "Day", "Hour", "AirTemperature", "RelativeHumidity",
    "VaporPressureDeficit", "SolarRadiation", "Precipitation",
    "SoilTempFourInches", "SoilTempTwentyInches", "WindSpeedAverage",
    "WindMagnitudeVector", "WindDirectionVector", "WindDirectionStdDev",
    "WindSpeedMax", "Evapotranspiration", "VaporPressureActual",
    "DewpointHourAverage">>

\* the value of field k of a well-formed row
FieldValue(fields, k) ==
  IF k <= 3 THEN Atoi(fields[k]).val ELSE ParseFloat32(fields[k]).val

\* the record of a well-formed row, Time unset
Decoded(fields) ==
  [n \in DOMAIN ZeroData |->
     IF n = "Time" THEN ZeroTime
     ELSE FieldValue(fields, CHOOSE k \in 1..18 : RowMeaning[k] = n)]

\* the record of a well-formed row with the time of its own Year, Day and Hour
DecodedWithTime(fields) ==
  LET d == Decoded(fields)
  IN [d EXCEPT !.Time = WeatherDataDate(d, TRUE).val]

AllWellFormed(items) ==
  \A i \in 1..Len(items) : items[i].kind = "fields" /\ WellFormedRow(items[i].fields)

\* the i-th record of the result is the i-th row, decoded, with its own time
RowsInOrder ==
  /\ Len(result) = Len(consumed)
  /\ \A i \in 1..Len(consumed) : result[i] = DecodedWithTime(consumed[i].fields)

\* C4 as stated: on a stream of well-formed rows only, ReadHourlyData returns no
\* error and one record per row, in order, each with the time of its own fields
C4_EveryRowKept ==
  (pc = "returned" /\ readCalls > 0 /\ AllWellFormed(consumed))
    => err.isNil /\ RowsInOrder

\* C4 amended: the same, provided the host can load the America/Phoenix timezone
C4_EveryRowKeptWithZone ==
  (pc = "returned" /\ readCalls > 0 /\ AllWellFormed(consumed) /\ tzAvailable)
    => err.isNil /\ RowsInOrder

C4_Witness ==
  /\ pc = "returned"
  /\ readCalls > 0
  /\ tzAvailable
  /\ err.isNil
  /\ Len(consumed) = 3
  /\ AllWellFormed(consumed)
  /\ Len(result) = 3
  /\ result[1] = result[2]
  /\ result[3] # result[2]

\* a call of parseHourlyWeatherData on record has just returned
ParseReturned ==
  \/ entry = "parseHourlyWeatherData" /\ pc = "returned"
  \/ readCalls > 0 /\ pc = "date"
  \/ readCalls > 0 /\ pc = "returned" /\ coerced # <<>>
  \/ readCalls > 0 /\ pc = "returned" /\ record # <<>> /\ Len(record) # 18

\* C5: on a row that has not exactly 18 fields parseHourlyWeatherData fails with the
\* shape error and hands no field to integer or decimal parsing
C5_ShapeError ==
  (ParseReturned /\ Len(record) # 18)
    => /\ ~err.isNil
       /\ err.msg = <<ShapeMessage>> \o DecimalCode(Len(record))
       /\ coerced = <<>>
       /\ rec = ZeroData

C5_Witness ==
  /\ entry = "parseHourlyWeatherData"
  /\ pc = "returned"
  /\ Len(record) = 19
  /\ record[4] = <<"x">>
  /\ ~err.isNil
  /\ coerced = <<>>

\* C6: on an 18-field row parseHourlyWeatherData succeeds exactly when fields 1-3 are
\* integers and fields 4-18 decimals; then field k of the row is the value of the
\* k-th declared field of the record, and Time is unset
C6_PositionalDecode ==
  /\ (entry = "parseHourlyWeatherData" /\ pc = "returned" /\ Len(record) = 18)
       => /\ err.isNil <=> WellFormedRow(record)
          /\ err.isNil =>
               /\ \A k \in 1..18 : rec[RowMeaning[k]] = FieldValue(record, k)
               /\ rec.Time = ZeroTime
  /\ (readCalls > 0 /\ pc = "date")
       => /\ WellFormedRow(record)
          /\ \A k \in 1..18 : rec[RowMeaning[k]] = FieldValue(record, k)
          /\ rec.Time = ZeroTime

C6_Witness ==
  /\ entry = "parseHourlyWeatherData"
  /\ pc = "returned"
  /\ record = GoodRowB
  /\ err.isNil
  /\ rec.Year = 2024
  /\ rec.Day = 366
  /\ rec.Hour = 0
  /\ rec.AirTemperature = [num |-> 7, scale |-> 0]
  /\ rec.SolarRadiation = [num |-> 5, scale |-> 1]
  /\ rec.DewpointHourAverage = [num |-> 1875, scale |-> 2]
  /\ rec.Time = ZeroTime

\* the first field of an 18-field row that does not parse as its declared type, 0 if
\* there is none
FirstBadField(fields) ==
  LET bad == {k \in 1..18 : IF k <= 3 THEN ~Atoi(fields[k]).ok
                                       ELSE ~ParseFloat32(fields[k]).ok}
  IN IF bad = {} THEN 0 ELSE CHOOSE k \in bad : \A j \in bad : k <= j

\* C7: the type error of parseHourlyWeatherData names the offending field: a row with
\* the same unparsable text in another position gets another error
C7_ErrorNamesField ==
  (entry = "parseHourlyWeatherData" /\ pc = "returned" /\ Len(record) = 18
     /\ FirstBadField(record) # 0)
    => \A other \in ParseRows :
         (/\ Len(other) = 18
          /\ FirstBadField(other) # 0
          /\ FirstBadField(other) # FirstBadField(record)
          /\ other[FirstBadField(other)] = record[FirstBadField(record)])
           => parseHourlyWeatherData(other).err # err

\* days of each month
MonthLength(y, m) ==
  IF m = 2 THEN (IF IsLeap(y) THEN 29 ELSE 28)
  ELSE IF m \in {4, 6, 9, 11} THEN 30 ELSE 31

RECURSIVE CalendarDay(_, _, _)
\* the month and day of the month of the d-th day of year y, counting from month m
CalendarDay(y, m, d) ==
  IF d <= MonthLength(y, m) THEN [month |-> m, day |-> d]
  ELSE CalendarDay(y, m + 1, d - MonthLength(y, m))

\* hour h:00 local time on the d-th calendar day of year y
LocalHourOfDay(y, d, h) ==
  LET c == CalendarDay(y, 1, d) IN GoDate(y, c.month, c.day, h)

\* a direct call of WeatherDataDate with a day of the year that exists and an hour
\* of the day has returned
DateReturned ==
  /\ entry = "WeatherDataDate"
  /\ pc = "returned"
  /\ rec.Day \in 1..(IF IsLeap(rec.Year) THEN 366 ELSE 365)
  /\ rec.Hour \in 0..23

C9_FailedRetrievalNotDecoded ==
  (/\ entry = "DownloadHourlyData"
   /\ \/ response.failure # "none"
      \/ response.status # 0 /\ response.status \notin 200..299)
    => /\ readCalls = 0
       /\ pc = "returned" => ~err.isNil

\* C10: once ReadHourlyData is entered the stream is closed exactly once by the time
\* it returns, on every exit path, and not closed before
C10_ClosedExactlyOnce ==
  readCalls > 0 => closeCount = (IF pc = "returned" THEN 1 ELSE 0)

C10_Witness ==
  /\ entry = "DownloadHourlyData"
  /\ readCalls = 1
  /\ pc = "returned"
  /\ err = Errorf(<<"unable to resolve timezone">>)
  /\ Len(data) = 0
  /\ Len(consumed) = 1
  /\ closeCount = 1

====
